---- MODULE Spec2Model ----
\* JustiBot backend: the case lifecycle (create_case, finalize_case, get_case),
\* the Gemini text generator (generate_legal_text) and the legal_cases table.
\*
\* Execution model (FastAPI/uvicorn, one process):
\*   - create_case is "async def": it runs as a coroutine on the event loop. It
\*     awaits generate_legal_text, a coroutine whose body contains no await of
\*     its own (genai.list_models and model.generate_content are blocking
\*     calls), so from start to return it never yields the loop; worker
\*     threads run meanwhile, between any two of its statements. After the
\*     return, get_db's db.close() runs in a thread and the coroutine waits for
\*     it: the loop is free again, and the response is sent at a later turn
\*     of the loop. A body that fails validation never starts the coroutine.
\*   - finalize_case and get_case are plain "def": the loop hands them to a
\*     threadpool worker and later sends their response.
\*   - every request has its own SQLAlchemy session (get_db); a session that is
\*     closed without commit rolls back.
\*   - db.commit() and the db.refresh() that follows it are two statements:
\*     the commit expires the session's object and the refresh reads the row
\*     again, so a commit of another request can fall between the two.
\*   - at startup main.py calls create_all on core.database.Base, on which no
\*     model is declared (LegalCase is declared on models.Base): the
\*     legal_cases table exists only if the database already had it.
EXTENDS Integers, Sequences, FiniteSets, Bags, TLC

VARIABLES
    store,    \* table legal_cases: sequence of rows, row i has id i
    now,      \* the clock read by datetime.utcnow at insert
    aiLog,    \* the append-only file ai_error.log
    loop,     \* the coroutine currently on the event loop (a create_case request)
    pending,  \* bag of create_case responses that are built and not sent yet
    workers,  \* the requests being served by threadpool workers
    requests, \* how many requests the server has received
    created,  \* history: per case id, the body create_case got and the row it inserted
    tables    \* the tables that exist in the database

vars == <<store, now, aiLog, loop, pending, workers, requests, created, tables>>

\* ---------------------------------------------------------------- bounds
MaxCases == 2       \* rows the table can hold (and the case ids requests name)
NWorkers == 2       \* threadpool workers: concurrent finalize_case/get_case calls
MaxRequests == 3    \* requests the server receives in one behaviour

\* ---------------------------------------------------------------- values
None == "None"          \* Python None / SQL NULL
Unset == "Unset"        \* key absent from the request JSON
Unbound == "Unbound"    \* local name that was never assigned

CaseType == {"health", "fine"}

ErrorText == "Error generating legal text. Please try again later. (Error logged)"

Workers == 1..NWorkers
CaseIds == 1..MaxCases

\* Request bodies of POST /cases/.
CreateBodies ==
    { [case_type |-> "health", description |-> "d1"],
      [case_type |-> "fine",   description |-> ""],
      [case_type |-> "other",  description |-> "d1"] }

\* Request bodies of PUT /cases/{id}/finalize.
UpdateBodies ==
    { [citizen_name |-> "n1", citizen_id |-> "i1", city |-> "c1", email |-> "e1"],
      [citizen_name |-> "n2", citizen_id |-> "i2", city |-> "c2", email |-> Unset],
      [citizen_name |-> Unset, citizen_id |-> "i2", city |-> "c2", email |-> Unset] }

UpdateFields == {"citizen_name", "citizen_id", "city", "email"}

\* What genai.list_models() can return: a catalog, in the provider's order
\* (empty; no entry that generates; the first generating entry second; first).
Catalogs ==
    { << >>,
      << [name |-> "m1", supported_generation_methods |-> {"embedContent"}] >>,
      << [name |-> "m1", supported_generation_methods |-> {"embedContent"}],
         [name |-> "m2", supported_generation_methods |-> {"generateContent"}],
         [name |-> "m3", supported_generation_methods |-> {"generateContent"}] >>,
      << [name |-> "m2", supported_generation_methods |-> {"generateContent"}],
         [name |-> "m1", supported_generation_methods |-> {"embedContent"}] >> }

\* What response.text can be.
GenTexts == {"t1"}

\* ---------------------------------------------------------------- schemas
\* CaseCreate: case_type must be a CaseType, description any str.
CaseCreate(body) ==
    /\ body.case_type \in CaseType
    /\ body.description \notin {Unset, None}

\* Variant of CaseUpdate whose fields are all Optional.
CaseUpdate_AllOptional(body) == TRUE

\* CaseUpdate: three required str fields, email Optional[str] = None.
CaseUpdate(body) ==
    /\ body.citizen_name \notin {Unset, None}
    /\ body.citizen_id \notin {Unset, None}
    /\ body.city \notin {Unset, None}

\* The value of a CaseUpdate field: the request's, or the default None.
FieldValue(body, k) == IF body[k] = Unset THEN None ELSE body[k]

\* Variant of DictExcludeUnset: dict() without exclude_unset, every field of
\* the schema, the omitted ones with their default.
DictAll(body) == UpdateFields

\* user_data.dict(exclude_unset=True): the keys the request carried.
DictExcludeUnset(body) == {k \in UpdateFields : body[k] # Unset}

\* CaseResponse built from an ORM object with from_attributes: a field whose
\* name is no attribute of the object takes its default.
CaseResponse(obj) ==
    [ id             |-> obj.id,
      case_type      |-> obj.case_type,
      description    |-> obj.description,
      status         |-> obj.status,
      generated_text |-> IF "generated_text" \in DOMAIN obj THEN obj.generated_text ELSE None,
      pdf_url        |-> IF "pdf_url" \in DOMAIN obj THEN obj.pdf_url ELSE None ]

\* ---------------------------------------------------------------- table
\* LegalCase(case_type=..., description=..., generated_text=..., status="draft")
\* as inserted: the store assigns id and created_at, the other columns are NULL.
LegalCase(id, created_at, case_type, description, generated_text) ==
    [ id             |-> id,
      created_at     |-> created_at,
      citizen_name   |-> None,
      citizen_id     |-> None,
      city           |-> None,
      email          |-> None,
      case_type      |-> case_type,
      description    |-> description,
      generated_text |-> generated_text,
      pdf_path       |-> None,
      status         |-> "draft" ]

\* The result of .first() when no row matches.
NoCase ==
    [ id |-> 0, created_at |-> 0, citizen_name |-> None, citizen_id |-> None,
      city |-> None, email |-> None, case_type |-> None, description |-> None,
      generated_text |-> None, pdf_path |-> None, status |-> None ]

\* db.query(LegalCase).filter(LegalCase.id == case_id).first()
QueryFirst(case_id) ==
    IF case_id \in 1..Len(store) THEN store[case_id] ELSE NoCase

\* for key, value in user_data.dict(exclude_unset=True).items(): setattr(...)
SetAttrs(obj, body) ==
    [k \in DOMAIN obj |->
        IF k \in DictExcludeUnset(body) THEN FieldValue(body, k) ELSE obj[k]]

\* Variant of FlushUpdate for a created_at column declared with onupdate: every
\* UPDATE stamps it with the current time.
FlushUpdate_OnUpdate(row, loaded, obj) ==
    [k \in DOMAIN row |->
        IF k = "created_at" THEN now
        ELSE IF obj[k] # loaded[k] THEN obj[k] ELSE row[k]]

\* The UPDATE a commit flushes: the columns whose value differs from the value
\* the session loaded, applied to the row as it is now.
FlushUpdate(row, loaded, obj) ==
    [k \in DOMAIN row |-> IF obj[k] # loaded[k] THEN obj[k] ELSE row[k]]

\* ---------------------------------------------------------------- renderer
\* pdf_service.create_pdf: returns the artifact's name, derived from the id.
CreatePdf(case_id) == "case_" \o ToString(case_id) \o ".pdf"

\* ---------------------------------------------------------------- responses
NoResponse == [code |-> 0, detail |-> "", case |-> CaseResponse(NoCase)]
Ok(obj) == [code |-> 200, detail |-> "", case |-> CaseResponse(obj)]
Error(code, detail) == [code |-> code, detail |-> detail, case |-> CaseResponse(NoCase)]

\* ---------------------------------------------------------------- startup
\* The tables declared on core.database.Base, the Base main.py imports: none.
DatabaseBaseMetadata == {}

\* The tables declared on models.Base, a second declarative_base(): LegalCase.
ModelsBaseMetadata == {"legal_cases"}

\* metadata.create_all(bind=engine): creates the metadata's tables that the
\* database does not have yet.
CreateAll(metadata, existing) == existing \cup metadata

\* What the database can hold before the server starts: nothing, or a
\* legal_cases table made by other means.
Preexisting == SUBSET ModelsBaseMetadata

\* Whether a statement on legal_cases can run; without the table it raises.
TableExists == "legal_cases" \in tables

\* ---------------------------------------------------------------- state
IdleLoop ==
    [ pc |-> "idle", body |-> [case_type |-> None, description |-> None],
      catalog |-> << >>, model_name |-> Unbound, e |-> None,
      generated_text |-> Unbound, case_id |-> 0,
      lists |-> 0, generations |-> 0, inserts |-> 0, resp |-> NoResponse ]

IdleWorker ==
    [ op |-> "none", pc |-> "idle", case_id |-> 0,
      body |-> [citizen_name |-> Unset, citizen_id |-> Unset, city |-> Unset, email |-> Unset],
      loaded |-> NoCase, db_case |-> NoCase, content |-> Unbound,
      renders |-> 0, commits |-> 0, resp |-> NoResponse ]

Init ==
    /\ store = << >>
    /\ now = 1
    /\ aiLog = << >>
    /\ loop = IdleLoop
    /\ pending = EmptyBag
    /\ workers = [w \in Workers |-> IdleWorker]
    /\ requests = 0
    /\ created = << >>
    /\ \E existing \in Preexisting :
          tables = CreateAll(DatabaseBaseMetadata, existing)

\* ================================================================ create_case
\* Variant of CreateReceive that inserts the case before the generator is
\* called, its generated_text still NULL.
CreateReceive_InsertFirst(body) ==
    /\ requests < MaxRequests
    /\ requests' = requests + 1
    /\ loop.pc = "idle"
    /\ Len(store) < MaxCases
    /\ IF CaseCreate(body)
         THEN LET db_case == LegalCase(Len(store) + 1, now, body.case_type,
                                       body.description, None)
              IN  /\ store' = Append(store, db_case)
                  /\ created' = Append(created, [body |-> body, row |-> db_case])
                  /\ now' = now + 1
                  /\ loop' = [IdleLoop EXCEPT !.pc = "list_models", !.body = body,
                                              !.inserts = 1]
                  /\ pending' = pending
         ELSE /\ pending' = pending (+) SetToBag({Error(422, "validation")})
              /\ UNCHANGED <<loop, created, store, now>>
    /\ UNCHANGED <<tables, aiLog, workers>>

\* POST /cases/ arrives: the loop validates the body and starts the coroutine.
\* A body that fails validation is answered 422: create_case is not called and
\* the loop is not held.
CreateReceive(body) ==
    /\ requests < MaxRequests
    /\ requests' = requests + 1
    /\ loop.pc = "idle"
    /\ Len(store) < MaxCases
    /\ IF CaseCreate(body)
         THEN /\ loop' = [IdleLoop EXCEPT !.pc = "list_models", !.body = body]
              /\ pending' = pending
         ELSE /\ pending' = pending (+) SetToBag({Error(422, "validation")})
              /\ loop' = loop
    /\ UNCHANGED <<tables, created, store, now, aiLog, workers>>

\* Variant of AvailableModels without the supported_generation_methods test.
AvailableModels_All(catalog) ==
    [i \in 1..Len(catalog) |-> catalog[i].name]

\* available_models: the names of the catalog entries that support
\* generateContent, in catalog order.
AvailableModels(catalog) ==
    LET eligible == SelectSeq(catalog,
                        LAMBDA m : "generateContent" \in m.supported_generation_methods)
    IN  [i \in 1..Len(eligible) |-> eligible[i].name]

\* model_name = available_models[0]
SelectModel(available_models) == available_models[1]

\* Variant of ExceptHandler that sends a failed generation call once more.
ExceptHandler_Retry(l, e) ==
    IF l.model_name = Unbound
      THEN /\ aiLog' = Append(aiLog, [model |-> Unset, exception |-> Unset])
           /\ loop' = [l EXCEPT !.pc = "return", !.e = e,
                                !.resp = Error(500, "Internal Server Error")]
      ELSE IF l.generations < 2
             THEN /\ loop' = [l EXCEPT !.pc = "generate_content"]
                  /\ aiLog' = aiLog
             ELSE /\ aiLog' = Append(aiLog, [model |-> l.model_name, exception |-> e])
                  /\ loop' = [l EXCEPT !.pc = "insert", !.e = e, !.catalog = << >>,
                                       !.generated_text = ErrorText]

\* except Exception as e: the handler writes the header and the key line, then
\* formats model_name. When model_name was never assigned that read raises
\* UnboundLocalError inside the handler: the file is closed with the two lines
\* written so far and the error leaves generate_legal_text and create_case.
\* Otherwise the entry is completed and the notice text is returned to
\* create_case, which has inserted nothing yet.
ExceptHandler(l, e) ==
    IF l.model_name = Unbound
      THEN /\ aiLog' = Append(aiLog, [model |-> Unset, exception |-> Unset])
           /\ loop' = [l EXCEPT !.pc = "return", !.e = e,
                                !.resp = Error(500, "Internal Server Error")]
      ELSE /\ aiLog' = Append(aiLog, [model |-> l.model_name, exception |-> e])
           /\ loop' = [l EXCEPT !.pc = "insert", !.e = e, !.catalog = << >>,
                                !.generated_text = ErrorText]

\* genai.list_models() answers with a catalog: the first eligible model is
\* selected, or "no models" is raised.
ListModelsReturns(catalog) ==
    /\ loop.pc = "list_models"
    /\ IF AvailableModels(catalog) = << >>
         THEN ExceptHandler([loop EXCEPT !.lists = @ + 1],
                            "No generative models available for this API Key.")
         ELSE /\ loop' = [loop EXCEPT !.pc = "generate_content", !.lists = @ + 1,
                             !.catalog = catalog,
                             !.model_name = SelectModel(AvailableModels(catalog))]
              /\ aiLog' = aiLog
    /\ UNCHANGED <<tables, pending, created, store, now, workers, requests>>

\* genai.list_models() raises.
ListModelsRaises ==
    /\ loop.pc = "list_models"
    /\ ExceptHandler([loop EXCEPT !.lists = @ + 1], "list_models failed")
    /\ UNCHANGED <<tables, pending, created, store, now, workers, requests>>

\* model.generate_content(user_prompt) answers; response.text is returned to
\* create_case.
GenerateContentReturns(text) ==
    /\ loop.pc = "generate_content"
    /\ loop' = [loop EXCEPT !.pc = "insert", !.generations = @ + 1,
                            !.catalog = << >>, !.generated_text = text]
    /\ UNCHANGED <<tables, pending, created, store, now, aiLog, workers, requests>>

\* model.generate_content(user_prompt) raises.
GenerateContentRaises ==
    /\ loop.pc = "generate_content"
    /\ ExceptHandler([loop EXCEPT !.generations = @ + 1], "generate_content failed")
    /\ UNCHANGED <<tables, pending, created, store, now, workers, requests>>

\* create_case with the generated_text that generate_legal_text returned:
\* db_case = LegalCase(...); db.add(db_case); db.commit(): the row is inserted
\* under the id the database assigns and is visible to every session. Without
\* the table the INSERT raises and the request ends in a 500.
InsertCase ==
    /\ loop.pc = "insert"
    /\ LET db_case == LegalCase(Len(store) + 1, now, loop.body.case_type,
                                loop.body.description, loop.generated_text)
       IN  IF TableExists
             THEN /\ store' = Append(store, db_case)
                  /\ created' = Append(created, [body |-> loop.body, row |-> db_case])
                  /\ now' = now + 1
                  /\ loop' = [loop EXCEPT !.pc = "refresh", !.inserts = @ + 1,
                                          !.case_id = db_case.id]
             ELSE /\ loop' = [loop EXCEPT !.pc = "return",
                                          !.resp = Error(500, "Internal Server Error")]
                  /\ UNCHANGED <<created, store, now>>
    /\ UNCHANGED <<tables, pending, aiLog, workers, requests>>

\* db.refresh(db_case); return db_case: the row is read back as it is now and
\* is what create_case answers with.
CreateRefresh ==
    /\ loop.pc = "refresh"
    /\ loop' = [loop EXCEPT !.pc = "return", !.resp = Ok(store[loop.case_id])]
    /\ UNCHANGED <<tables, pending, created, store, now, aiLog, workers, requests>>

\* create_case is over (return db_case, or the exception that left it): the
\* response is built, get_db's finally closes the session in a thread and the
\* coroutine waits for it, so the loop is free again.
CreateReturn ==
    /\ loop.pc = "return"
    /\ loop' = IdleLoop
    /\ pending' = pending (+) SetToBag({loop.resp})
    /\ UNCHANGED <<tables, created, store, now, aiLog, workers, requests>>

\* The loop sends the response of a create_case request that is over.
CreateSend(r) ==
    /\ loop.pc = "idle"
    /\ BagIn(r, pending)
    /\ pending' = pending (-) SetToBag({r})
    /\ UNCHANGED <<tables, created, store, now, aiLog, loop, workers, requests>>

\* ================================================================ threadpool
\* The pool hands a call to an idle worker; which one is immaterial, so the
\* lowest-numbered idle worker takes it.
IdleWorkerIs(w) ==
    /\ workers[w].pc = "idle"
    /\ \A v \in Workers : v < w => workers[v].pc # "idle"

\* ================================================================ finalize_case
\* PUT /cases/{id}/finalize arrives: the loop validates the body and hands the
\* call to a threadpool worker.
FinalizeDispatch(w, case_id, body) ==
    /\ requests < MaxRequests
    /\ requests' = requests + 1
    /\ loop.pc = "idle"
    /\ IdleWorkerIs(w)
    /\ workers' = [workers EXCEPT ![w] =
            IF CaseUpdate(body)
              THEN [IdleWorker EXCEPT !.op = "finalize", !.pc = "fetch",
                                      !.case_id = case_id, !.body = body]
              ELSE [IdleWorker EXCEPT !.op = "finalize", !.pc = "respond",
                                      !.case_id = case_id, !.body = body,
                                      !.resp = Error(422, "validation")]]
    /\ UNCHANGED <<tables, pending, created, store, now, aiLog, loop>>

\* Variant of FinalizeFetch that commits the request's fields as soon as they
\* are set, before the renderer is called.
FinalizeFetch_CommitEarly(w) ==
    /\ workers[w].op = "finalize"
    /\ workers[w].pc = "fetch"
    /\ LET db_case == QueryFirst(workers[w].case_id)
       IN  /\ workers' = [workers EXCEPT ![w] =
                IF ~TableExists
                  THEN [@ EXCEPT !.pc = "respond",
                                 !.resp = Error(500, "Internal Server Error")]
                ELSE IF db_case = NoCase
                  THEN [@ EXCEPT !.pc = "respond", !.resp = Error(404, "Case not found")]
                  ELSE [@ EXCEPT !.pc = "create_pdf",
                                 !.loaded = SetAttrs(db_case, workers[w].body),
                                 !.db_case = SetAttrs(db_case, workers[w].body)]]
           /\ store' = IF db_case = NoCase
                         THEN store
                         ELSE [store EXCEPT ![workers[w].case_id] =
                                  SetAttrs(db_case, workers[w].body)]
    /\ UNCHANGED <<tables, pending, created, now, aiLog, loop, requests>>

\* Variant of FinalizeFetch that turns away a case whose generated_text is the
\* notice of a failed generation.
FinalizeFetch_RejectPlaceholder(w) ==
    /\ workers[w].op = "finalize"
    /\ workers[w].pc = "fetch"
    /\ LET db_case == QueryFirst(workers[w].case_id)
       IN  workers' = [workers EXCEPT ![w] =
              IF ~TableExists
                THEN [@ EXCEPT !.pc = "respond",
                               !.resp = Error(500, "Internal Server Error")]
              ELSE IF db_case = NoCase
                THEN [@ EXCEPT !.pc = "respond", !.resp = Error(404, "Case not found")]
                ELSE IF db_case.generated_text = ErrorText
                  THEN [@ EXCEPT !.pc = "respond", !.loaded = db_case,
                                 !.resp = Error(409, "No legal text")]
                  ELSE [@ EXCEPT !.pc = "create_pdf", !.loaded = db_case,
                                 !.db_case = SetAttrs(db_case, workers[w].body),
                                 !.content = db_case.generated_text]]
    /\ UNCHANGED <<tables, pending, created, store, now, aiLog, loop, requests>>

\* db_case = query.first(); 404 when there is none; else the request's fields
\* are set on the loaded object and pdf_service.create_pdf is called with
\* content = db_case.generated_text.
FinalizeFetch(w) ==
    /\ workers[w].op = "finalize"
    /\ workers[w].pc = "fetch"
    /\ LET db_case == QueryFirst(workers[w].case_id)
       IN  workers' = [workers EXCEPT ![w] =
              IF ~TableExists
                THEN [@ EXCEPT !.pc = "respond",
                               !.resp = Error(500, "Internal Server Error")]
              ELSE IF db_case = NoCase
                THEN [@ EXCEPT !.pc = "respond", !.resp = Error(404, "Case not found")]
                ELSE [@ EXCEPT !.pc = "create_pdf", !.loaded = db_case,
                               !.db_case = SetAttrs(db_case, workers[w].body),
                               !.content = db_case.generated_text]]
    /\ UNCHANGED <<tables, pending, created, store, now, aiLog, loop, requests>>

\* Variant of FinalizeRenderReturns that commits before pdf_path and status
\* are set on the object.
FinalizeRenderReturns_CommitFirst(w) ==
    /\ workers[w].pc = "create_pdf"
    /\ LET row == FlushUpdate(store[workers[w].case_id], workers[w].loaded,
                              workers[w].db_case)
       IN  /\ store' = [store EXCEPT ![workers[w].case_id] = row]
           /\ workers' = [workers EXCEPT ![w] =
                  [@ EXCEPT !.pc = "refresh", !.renders = @ + 1, !.commits = @ + 1,
                            !.db_case = NoCase]]
    /\ UNCHANGED <<tables, pending, now, aiLog, loop, requests, created>>

\* Variant of FinalizeRenderReturns that stores pdf_path and leaves status.
FinalizeRenderReturns_NoStatus(w) ==
    /\ workers[w].pc = "create_pdf"
    /\ LET db_case == [workers[w].db_case EXCEPT
                          !.pdf_path = CreatePdf(workers[w].db_case.id)]
           row == FlushUpdate(store[workers[w].case_id], workers[w].loaded, db_case)
       IN  /\ store' = [store EXCEPT ![workers[w].case_id] = row]
           /\ workers' = [workers EXCEPT ![w] =
                  [@ EXCEPT !.pc = "refresh", !.renders = @ + 1, !.commits = @ + 1,
                            !.db_case = NoCase]]
    /\ UNCHANGED <<tables, pending, now, aiLog, loop, requests, created>>

\* Variant of FinalizeRenderReturns whose UPDATE has no WHERE clause: the
\* changed columns are written to every row.
FinalizeRenderReturns_NoWhere(w) ==
    /\ workers[w].pc = "create_pdf"
    /\ LET db_case == [workers[w].db_case EXCEPT
                          !.pdf_path = CreatePdf(workers[w].db_case.id),
                          !.status = "completed"]
           row == FlushUpdate(store[workers[w].case_id], workers[w].loaded, db_case)
       IN  /\ store' = [i \in DOMAIN store |->
                           FlushUpdate(store[i], workers[w].loaded, db_case)]
           /\ workers' = [workers EXCEPT ![w] =
                  [@ EXCEPT !.pc = "refresh", !.renders = @ + 1, !.commits = @ + 1,
                            !.db_case = NoCase]]
    /\ UNCHANGED <<tables, pending, now, aiLog, loop, requests, created>>

\* pdf_service.create_pdf returns: pdf_path and status are set on the object;
\* db.commit() writes the pending changes to the row and expires the object.
FinalizeRenderReturns(w) ==
    /\ workers[w].pc = "create_pdf"
    /\ LET db_case == [workers[w].db_case EXCEPT
                          !.pdf_path = CreatePdf(workers[w].db_case.id),
                          !.status = "completed"]
           row == FlushUpdate(store[workers[w].case_id], workers[w].loaded, db_case)
       IN  /\ store' = [store EXCEPT ![workers[w].case_id] = row]
           /\ workers' = [workers EXCEPT ![w] =
                  [@ EXCEPT !.pc = "refresh", !.renders = @ + 1, !.commits = @ + 1,
                            !.db_case = NoCase]]
    /\ UNCHANGED <<tables, pending, now, aiLog, loop, requests, created>>

\* Variant of FinalizeRenderRaises whose session flushes the pending changes
\* when it is closed.
FinalizeRenderRaises_Flush(w) ==
    /\ workers[w].pc = "create_pdf"
    /\ store' = [store EXCEPT ![workers[w].case_id] =
                    FlushUpdate(@, workers[w].loaded, workers[w].db_case)]
    /\ workers' = [workers EXCEPT ![w] =
            [@ EXCEPT !.pc = "respond", !.renders = @ + 1,
                      !.db_case = NoCase,
                      !.resp = Error(500, "Internal Server Error")]]
    /\ UNCHANGED <<tables, pending, now, aiLog, loop, requests, created>>

\* Variant of FinalizeRenderRaises that swallows the renderer's exception and
\* goes on to mark the case completed.
FinalizeRenderRaises_Swallow(w) ==
    /\ workers[w].pc = "create_pdf"
    /\ LET db_case == [workers[w].db_case EXCEPT !.status = "completed"]
           row == FlushUpdate(store[workers[w].case_id], workers[w].loaded, db_case)
       IN  /\ store' = [store EXCEPT ![workers[w].case_id] = row]
           /\ workers' = [workers EXCEPT ![w] =
                  [@ EXCEPT !.pc = "refresh", !.renders = @ + 1, !.commits = @ + 1,
                            !.db_case = NoCase]]
    /\ UNCHANGED <<tables, pending, now, aiLog, loop, requests, created>>

\* Variant of FinalizeRenderRaises that calls the renderer again after its first
\* failure.
FinalizeRenderRaises_Again(w) ==
    /\ workers[w].pc = "create_pdf"
    /\ workers' = [workers EXCEPT ![w] =
            IF @.renders = 0
              THEN [@ EXCEPT !.renders = @ + 1]
              ELSE [@ EXCEPT !.pc = "respond", !.renders = @ + 1,
                             !.db_case = NoCase,
                             !.resp = Error(500, "Internal Server Error")]]
    /\ UNCHANGED <<tables, pending, created, store, now, aiLog, loop, requests>>

\* pdf_service.create_pdf raises: the exception leaves finalize_case, get_db
\* closes the session and the pending changes are discarded.
FinalizeRenderRaises(w) ==
    /\ workers[w].pc = "create_pdf"
    /\ workers' = [workers EXCEPT ![w] =
            [@ EXCEPT !.pc = "respond", !.renders = @ + 1,
                      !.db_case = NoCase,
                      !.resp = Error(500, "Internal Server Error")]]
    /\ UNCHANGED <<tables, pending, created, store, now, aiLog, loop, requests>>

\* db.refresh(db_case); return db_case: the row is read back as it is now and
\* is what finalize_case answers with.
FinalizeRefresh(w) ==
    /\ workers[w].op = "finalize"
    /\ workers[w].pc = "refresh"
    /\ workers' = [workers EXCEPT ![w] =
            [@ EXCEPT !.pc = "respond",
                      !.db_case = store[workers[w].case_id],
                      !.resp = Ok(store[workers[w].case_id])]]
    /\ UNCHANGED <<tables, pending, created, store, now, aiLog, loop, requests>>

\* ================================================================ get_case
GetDispatch(w, case_id) ==
    /\ requests < MaxRequests
    /\ requests' = requests + 1
    /\ loop.pc = "idle"
    /\ IdleWorkerIs(w)
    /\ workers' = [workers EXCEPT ![w] =
            [IdleWorker EXCEPT !.op = "get", !.pc = "fetch", !.case_id = case_id]]
    /\ UNCHANGED <<tables, pending, created, store, now, aiLog, loop>>

\* Variant of GetFetch whose query has no filter: .first() is the first row.
GetFetch_NoFilter(w) ==
    /\ workers[w].op = "get"
    /\ workers[w].pc = "fetch"
    /\ LET db_case == QueryFirst(1)
       IN  workers' = [workers EXCEPT ![w] =
              IF ~TableExists
                THEN [@ EXCEPT !.pc = "respond",
                               !.resp = Error(500, "Internal Server Error")]
              ELSE IF db_case = NoCase
                THEN [@ EXCEPT !.pc = "respond", !.resp = Error(404, "Case not found")]
                ELSE [@ EXCEPT !.pc = "respond", !.loaded = db_case,
                               !.db_case = db_case, !.resp = Ok(db_case)]]
    /\ UNCHANGED <<tables, pending, created, store, now, aiLog, loop, requests>>

\* db_case = query.first(); 404 when there is none; else return db_case
GetFetch(w) ==
    /\ workers[w].op = "get"
    /\ workers[w].pc = "fetch"
    /\ LET db_case == QueryFirst(workers[w].case_id)
       IN  workers' = [workers EXCEPT ![w] =
              IF ~TableExists
                THEN [@ EXCEPT !.pc = "respond",
                               !.resp = Error(500, "Internal Server Error")]
              ELSE IF db_case = NoCase
                THEN [@ EXCEPT !.pc = "respond", !.resp = Error(404, "Case not found")]
                ELSE [@ EXCEPT !.pc = "respond", !.loaded = db_case,
                               !.db_case = db_case, !.resp = Ok(db_case)]]
    /\ UNCHANGED <<tables, pending, created, store, now, aiLog, loop, requests>>

\* The loop sends a worker's response (or the exception's 500) to the client.
Respond(w) ==
    /\ loop.pc = "idle"
    /\ workers[w].pc = "respond"
    /\ workers' = [workers EXCEPT ![w] = IdleWorker]
    /\ UNCHANGED <<tables, pending, created, store, now, aiLog, loop, requests>>

\* ================================================================ system
Next ==
    \/ \E body \in CreateBodies : CreateReceive(body)
    \/ \E catalog \in Catalogs : ListModelsReturns(catalog)
    \/ ListModelsRaises
    \/ \E text \in GenTexts : GenerateContentReturns(text)
    \/ GenerateContentRaises
    \/ InsertCase
    \/ CreateRefresh
    \/ CreateReturn
    \/ \E r \in BagToSet(pending) : CreateSend(r)
    \/ \E w \in Workers, case_id \in CaseIds, body \in UpdateBodies :
            FinalizeDispatch(w, case_id, body)
    \/ \E w \in Workers : FinalizeFetch(w)
    \/ \E w \in Workers : FinalizeRenderReturns(w)
    \/ \E w \in Workers : FinalizeRenderRaises(w)
    \/ \E w \in Workers : FinalizeRefresh(w)
    \/ \E w \in Workers, case_id \in CaseIds : GetDispatch(w, case_id)
    \/ \E w \in Workers : GetFetch(w)
    \/ \E w \in Workers : Respond(w)

Spec == Init /\ [][Next]_vars

\* The server's own steps are taken when they can be: a thread runs its query
\* or its refresh, the loop sends a response it holds. Nothing is assumed of genai or of
\* the renderer: the code puts no timeout on either call, so an answer (a
\* return or an exception) comes only if the callee gives one.
LiveSpec ==
    /\ Spec
    /\ WF_vars(InsertCase)
    /\ WF_vars(CreateRefresh)
    /\ WF_vars(CreateReturn)
    /\ WF_vars(\E r \in BagToSet(pending) : CreateSend(r))
    /\ \A w \in Workers :
          /\ WF_vars(FinalizeFetch(w))
          /\ WF_vars(FinalizeRefresh(w))
          /\ WF_vars(GetFetch(w))
          /\ WF_vars(Respond(w))

\* ================================================================ claims
\* Names for the requests the claims speak about.
Finalizing(w) == workers[w].op = "finalize"
Responding(w) == workers[w].pc = "respond"
GeneratorFailed == loop.e # None
InGenerator == loop.pc \in {"list_models", "generate_content"}

\* C1: whenever the generator fails (the catalog query raises, the catalog has
\* no text-generation model, or the generation call raises), create_case still
\* answers 200 with exactly one inserted case whose status is draft and whose
\* generated_text is the placeholder error string.
C1_CreateSurvivesGeneratorFailure ==
    (loop.pc = "return" /\ GeneratorFailed) =>
        /\ loop.resp.code = 200
        /\ loop.inserts = 1
        /\ loop.resp.case.id \in 1..Len(store)
        /\ loop.resp.case.status = "draft"
        /\ loop.resp.case.generated_text = ErrorText
        /\ store[loop.resp.case.id].generated_text = ErrorText

\* C2: a finalize_case that finds the case already completed fails with a
\* Conflict (409), never calls the renderer and never writes the row.
C2_SecondFinalizeConflicts ==
    \A w \in Workers :
        (Finalizing(w) /\ workers[w].loaded.status = "completed") =>
            /\ Responding(w)
            /\ workers[w].resp.code = 409
            /\ workers[w].renders = 0
            /\ workers[w].commits = 0

\* C3: of two concurrent finalize_case requests on the same case that both
\* found it in draft, at most one writes the draft -> completed transition.
C3_AtMostOneFinalizationWins ==
    \A w, v \in Workers :
        (/\ w # v
         /\ Finalizing(w) /\ Finalizing(v)
         /\ workers[w].case_id = workers[v].case_id
         /\ workers[w].loaded.status = "draft"
         /\ workers[v].loaded.status = "draft")
        => ~(workers[w].commits = 1 /\ workers[v].commits = 1)

\* The fields a finalize request body carries.
Carried(body) == {k \in UpdateFields : body[k] # Unset}

\* Steps of worker w, seen in a transition.
RenderStep(w) == workers[w].pc = "create_pdf" /\ workers'[w].pc # "create_pdf"
RenderFailedStep(w) == RenderStep(w) /\ workers'[w].pc = "respond"
CommitStep(w) == RenderStep(w) /\ workers'[w].pc = "refresh"
FetchMissStep(w) ==
    /\ Finalizing(w)
    /\ workers[w].pc = "fetch"
    /\ workers'[w].pc # "fetch"
    /\ workers[w].case_id \notin 1..Len(store)

\* C4: when the renderer raises, the caller gets the error (500), the store is
\* left exactly as it was (a draft case stays draft with no pdf_path), and a
\* finalize_case that finds a draft case is never turned away: it goes on to
\* the renderer.
C4_RenderFailureKeepsDraft ==
    /\ [][\A w \in Workers : RenderFailedStep(w) =>
            /\ store' = store
            /\ workers'[w].resp.code = 500
            /\ workers'[w].commits = 0]_vars
    /\ [](\A w \in Workers :
            (Finalizing(w) /\ workers[w].loaded.status = "draft") =>
                \/ workers[w].pc = "create_pdf"
                \/ workers[w].pc \in {"refresh", "respond"} /\ workers[w].renders = 1)

\* A finalize_case failed in the renderer for a case that is still a draft
\* without pdf_path, and another finalize_case of that case has been accepted
\* and is at the renderer.
C4_Witness ==
    \E w, v \in Workers :
        /\ w # v
        /\ Finalizing(w) /\ Responding(w)
        /\ workers[w].renders = 1 /\ workers[w].resp.code = 500
        /\ workers[w].case_id \in 1..Len(store)
        /\ store[workers[w].case_id].status = "draft"
        /\ store[workers[w].case_id].pdf_path = None
        /\ store[workers[w].case_id].citizen_name = None
        /\ Finalizing(v) /\ workers[v].case_id = workers[w].case_id
        /\ workers[v].pc = "create_pdf"

\* C5: a finalize_case whose id matches no row answers 404 Not Found in a step
\* that leaves every row unchanged, and it has called the renderer zero times
\* and committed zero times.
C5_NotFoundWritesNothing ==
    /\ [][\A w \in Workers : FetchMissStep(w) =>
            /\ store' = store
            /\ workers'[w].pc = "respond"
            /\ workers'[w].resp.code = 404]_vars
    /\ [](\A w \in Workers :
            (Finalizing(w) /\ workers[w].resp.code = 404) =>
                /\ Responding(w)
                /\ workers[w].renders = 0
                /\ workers[w].commits = 0)

\* The refresh of a finalize_case on worker w, seen in a transition.
RefreshStep(w) ==
    /\ Finalizing(w)
    /\ workers[w].pc = "refresh"
    /\ workers'[w].pc # "refresh"

\* C6: the commit of a finalize_case on a case that is a draft in the store
\* whose renderer call returned writes, in that one step, every identity field
\* the request carried, pdf_path = the name the renderer returned and status =
\* completed, and changes no other column; the handler then answers 200 with
\* the row of that id as it reads it back: completed, with that pdf_path.
C6_FinalizePersistsAll ==
    [][\A w \in Workers :
        /\ (CommitStep(w) /\ store[workers[w].case_id].status = "draft") =>
              LET id == workers[w].case_id
                  row == store'[id]
              IN  /\ \A k \in Carried(workers[w].body) : row[k] = workers[w].body[k]
                  /\ row.pdf_path = CreatePdf(id)
                  /\ row.status = "completed"
                  /\ \A k \in {"id", "created_at", "case_type", "description",
                               "generated_text"} : row[k] = store[id][k]
                  /\ \A i \in 1..Len(store) : i # id => store'[i] = store[i]
                  /\ Len(store') = Len(store)
        /\ RefreshStep(w) =>
              LET id == workers[w].case_id
              IN  /\ workers'[w].pc = "respond"
                  /\ workers'[w].db_case = store[id]
                  /\ workers'[w].db_case.status = "completed"
                  /\ workers'[w].db_case.pdf_path = CreatePdf(id)
                  /\ \A k \in {"citizen_name", "citizen_id", "city"} :
                        workers'[w].db_case[k] # None
                  /\ workers'[w].resp.code = 200
                  /\ workers'[w].resp.case.id = id
                  /\ workers'[w].resp.case.status = "completed"
                  /\ store' = store]_vars

\* A finalize_case that found a draft has committed name, id, city and email.
C6_Witness ==
    \E w \in Workers :
        /\ Finalizing(w) /\ Responding(w)
        /\ workers[w].resp.code = 200
        /\ workers[w].loaded.status = "draft"
        /\ workers[w].body.email = "e1"
        /\ store[workers[w].case_id] = workers[w].db_case
        /\ store[workers[w].case_id].email = "e1"
        /\ store[workers[w].case_id].status = "completed"

\* The columns the spec calls documentRef and the required identity fields.
HasDocumentAndIdentity(row) ==
    /\ row.pdf_path # None
    /\ row.citizen_name # None
    /\ row.citizen_id # None
    /\ row.city # None

\* C7: in every reachable table, a row has status completed if and only if its
\* pdf_path, citizen_name, citizen_id and city are all present.
C7_CompletedIffDocumentAndIdentity ==
    \A i \in 1..Len(store) :
        (store[i].status = "completed") <=> HasDocumentAndIdentity(store[i])

\* The table holds a completed case with its document and a draft without.
C7_Witness ==
    /\ Len(store) = 2
    /\ \E i, j \in 1..Len(store) :
        /\ store[i].status = "completed" /\ HasDocumentAndIdentity(store[i])
        /\ store[j].status = "draft" /\ store[j].pdf_path = None

\* C8: every 200 response of finalize_case, and every 200 response of get_case
\* for a completed case, has status completed and a non-null pdf_url equal to
\* the stored pdf_path.
C8_ResponseCarriesDocumentUrl ==
    \A w \in Workers :
        (/\ Responding(w)
         /\ workers[w].resp.code = 200
         /\ (Finalizing(w) \/ workers[w].db_case.status = "completed"))
        => /\ workers[w].resp.case.status = "completed"
           /\ workers[w].resp.case.pdf_url # None
           /\ workers[w].resp.case.pdf_url = workers[w].db_case.pdf_path

\* C9: while a create_case waits on the generator (catalog query or generation
\* call), a finished request of a worker and an earlier create_case that is
\* over can have their response sent, and a new get_case can be taken in.
C9_GeneratorWaitBlocksNobody ==
    InGenerator =>
        /\ \A w \in Workers : Responding(w) => ENABLED Respond(w)
        /\ \A r \in BagToSet(pending) : ENABLED CreateSend(r)
        /\ (requests < MaxRequests /\ \E w \in Workers : workers[w].pc = "idle")
              => ENABLED (\E w \in Workers, case_id \in CaseIds : GetDispatch(w, case_id))

\* C10: the commit of a finalize_case leaves every identity column the request
\* did not carry as it was in the store: an omitted email never replaces a
\* stored one, and stays NULL on a case that had none.
C10_OmittedFieldsKept ==
    [][\A w \in Workers : CommitStep(w) =>
            \A k \in UpdateFields \ Carried(workers[w].body) :
                store'[workers[w].case_id][k] = store[workers[w].case_id][k]]_vars

\* A finalize_case without email has committed on a case whose stored email
\* was "e1", and the email is still there.
C10_Witness ==
    \E w \in Workers :
        /\ Finalizing(w) /\ Responding(w)
        /\ workers[w].resp.code = 200
        /\ workers[w].body.email = Unset
        /\ workers[w].loaded.email = "e1"
        /\ store[workers[w].case_id].email = "e1"
        /\ store[workers[w].case_id].citizen_name = workers[w].body.citizen_name

\* C11: a create_case whose description is empty is rejected before the
\* handler runs: create_case is never on the loop with an empty description
\* (so it makes no catalog query, generation call or insert), and no stored
\* case has an empty description.
C11_EmptyDescriptionRejected ==
    /\ loop.pc # "idle" => loop.body.description # ""
    /\ \A i \in 1..Len(store) : store[i].description # ""

\* A POST /cases/ is taken in and create_case is not started.
CreateRejectedStep ==
    /\ requests' = requests + 1
    /\ workers' = workers
    /\ loop' = loop

\* C12: create_case is never on the loop with a case_type that is neither
\* health nor fine: the step that takes such a request in answers 422 and makes
\* no catalog query, generation call or insert. A finalize_case whose body
\* lacks citizen_name, citizen_id or city is answered 422 and has loaded
\* nothing, called no renderer and committed nothing. No stored case has
\* another case_type.
C12_InvalidRequestsRejected ==
    /\ [](loop.pc # "idle" => loop.body.case_type \in {"health", "fine"})
    /\ [][CreateRejectedStep =>
            /\ pending' = pending (+) SetToBag({Error(422, "validation")})
            /\ store' = store
            /\ created' = created
            /\ aiLog' = aiLog]_vars
    /\ [](\A w \in Workers :
            (/\ Finalizing(w)
             /\ \E k \in {"citizen_name", "citizen_id", "city"} : workers[w].body[k] = Unset)
            => /\ Responding(w)
               /\ workers[w].resp.code = 422
               /\ workers[w].loaded = NoCase
               /\ workers[w].renders = 0 /\ workers[w].commits = 0)
    /\ [](\A i \in 1..Len(store) : store[i].case_type \in {"health", "fine"})

\* A create_case with case_type "other" (the one invalid body) has been
\* answered 422, its response not sent yet, and a finalize_case without
\* citizen_name has been answered 422 while the table holds a draft.
C12_Witness ==
    /\ loop.pc = "idle"
    /\ BagIn(Error(422, "validation"), pending)
    /\ \E w \in Workers :
        /\ Finalizing(w) /\ workers[w].body.citizen_name = Unset
        /\ workers[w].resp.code = 422
        /\ workers[w].case_id \in 1..Len(store)
        /\ store[workers[w].case_id].status = "draft"
        /\ store[workers[w].case_id].citizen_id = None

\* C13: every 200 response of get_case carries the id it was asked for and the
\* case_type and description that create_case was given for that id, whatever
\* finalize_case has done to the case since.
C13_GetReturnsWhatCreateGot ==
    \A w \in Workers :
        (workers[w].op = "get" /\ Responding(w) /\ workers[w].resp.code = 200) =>
            /\ workers[w].case_id \in 1..Len(created)
            /\ workers[w].resp.case.id = workers[w].case_id
            /\ workers[w].resp.case.id = created[workers[w].case_id].row.id
            /\ workers[w].resp.case.case_type = created[workers[w].case_id].body.case_type
            /\ workers[w].resp.case.description = created[workers[w].case_id].body.description

\* A get_case has answered for a case that was finalized after its creation.
C13_Witness ==
    \E w \in Workers :
        /\ workers[w].op = "get" /\ Responding(w) /\ workers[w].resp.code = 200
        /\ workers[w].resp.case.status = "completed"
        /\ workers[w].resp.case.case_type = "health"
        /\ workers[w].resp.case.description = "d1"

\* Steps of a get_case request on worker w.
GetStep(w) ==
    /\ workers'[w] # workers[w]
    /\ workers[w].op = "get" \/ workers'[w].op = "get"
GetFetchStep(w) ==
    /\ workers[w].op = "get" /\ workers[w].pc = "fetch" /\ workers'[w].pc # "fetch"

\* C14: no step of a get_case request changes the table, the log or the
\* create_case in flight; its query answers 200 with the stored row when the id
\* exists and 404 when it does not; it never calls the renderer or commits.
C14_GetIsPureRead ==
    /\ [][\A w \in Workers :
            /\ GetStep(w) => /\ store' = store
                             /\ aiLog' = aiLog
                             /\ now' = now
                             /\ loop' = loop
            /\ GetFetchStep(w) =>
                  IF workers[w].case_id \in 1..Len(store)
                    THEN workers'[w].resp = Ok(store[workers[w].case_id])
                    ELSE workers'[w].resp.code = 404]_vars
    /\ [](\A w \in Workers :
            workers[w].op = "get" =>
                workers[w].renders = 0 /\ workers[w].commits = 0)

\* create_case is about to answer after a generation that succeeded.
CreatedFromGenerator ==
    /\ loop.pc = "return"
    /\ loop.e = None
    /\ loop.generations = 1

\* C15: when the generator succeeded, create_case has inserted exactly one case,
\* under the next id of the table, holding the text the generator returned,
\* status draft, no identity fields and no document, and answers 200 with it.
C15_CreateStoresGeneratedDraft ==
    CreatedFromGenerator =>
        /\ loop.inserts = 1
        /\ loop.resp.code = 200
        /\ loop.generated_text \in GenTexts
        /\ Len(created) = Len(store)
        /\ LET row == created[Len(created)].row
           IN  /\ row.id = Len(store)
               /\ \A i \in 1..(Len(store) - 1) : store[i].id # row.id
               /\ row.generated_text = loop.generated_text
               /\ row.status = "draft"
               /\ row.citizen_name = None /\ row.citizen_id = None
               /\ row.city = None /\ row.email = None
               /\ row.pdf_path = None
               /\ row.case_type = loop.body.case_type
               /\ row.description = loop.body.description
               /\ loop.resp.case.id = row.id
               /\ loop.resp.case.case_type = row.case_type
               /\ loop.resp.case.description = row.description
               /\ loop.resp.case.generated_text = row.generated_text

\* C16: once citizen_name, citizen_id, city or pdf_path of a stored case is not
\* null, no step changes it.
C16_IdentityWriteOnce ==
    [][\A i \in 1..Len(store) :
         \A k \in {"citizen_name", "citizen_id", "city", "pdf_path"} :
            store[i][k] # None => store'[i][k] = store[i][k]]_vars

\* C17: when create_case is about to answer after a generator failure, the last
\* log entry holds the underlying error, and the selected model when there was
\* one.
C17_GeneratorFailureLogged ==
    (loop.pc = "return" /\ GeneratorFailed) =>
        /\ aiLog # << >>
        /\ aiLog[Len(aiLog)].exception = loop.e
        /\ loop.model_name # Unbound => aiLog[Len(aiLog)].model = loop.model_name

\* Steps of a finalize_case request on worker w.
FinalizeStep(w) ==
    /\ workers'[w] # workers[w]
    /\ Finalizing(w) \/ workers'[w].op = "finalize"

\* C18: a finalize_case attempt writes the table in its commit step only, so an
\* attempt that fails in the renderer has written nothing: the step in which it
\* fails leaves the table as it was, with the row still holding none of the
\* attempt's pending values unless it held them already, and the attempt has
\* never committed.
C18_FinalizeAllOrNothing ==
    /\ [][\A w \in Workers :
            /\ (FinalizeStep(w) /\ ~CommitStep(w)) => store' = store
            /\ RenderFailedStep(w) =>
                 \A k \in Carried(workers[w].body) :
                    store'[workers[w].case_id][k] = store[workers[w].case_id][k]]_vars
    /\ [](\A w \in Workers :
            (Finalizing(w) /\ Responding(w) /\ workers[w].resp.code # 200) =>
                workers[w].commits = 0)

\* A finalize_case carrying n2/i2/c2 failed in the renderer on a case that an
\* earlier finalize_case had completed with n1/i1/c1, and the row is as that
\* attempt loaded it.
C18_Witness ==
    \E w \in Workers :
        /\ Finalizing(w) /\ Responding(w)
        /\ workers[w].renders = 1 /\ workers[w].resp.code = 500
        /\ workers[w].body.citizen_name = "n2"
        /\ workers[w].loaded.status = "completed"
        /\ store[workers[w].case_id] = workers[w].loaded
        /\ store[workers[w].case_id].citizen_name = "n1"
        /\ store[workers[w].case_id].email = "e1"

\* C19: a row is inserted with status draft; its status changes only from draft
\* to completed, and only in the commit step of a finalize_case of that case
\* whose renderer call returned, which stores the rendered document with it; a
\* completed row never goes back to draft.
C19_StatusLifecycle ==
    [][/\ Len(store') >= Len(store)
       /\ \A i \in (Len(store) + 1)..Len(store') : store'[i].status = "draft"
       /\ \A i \in 1..Len(store) :
            /\ store[i].status = "completed" => store'[i].status = "completed"
            /\ store'[i].status # store[i].status =>
                 /\ store[i].status = "draft"
                 /\ store'[i].status = "completed"
                 /\ store'[i].pdf_path = CreatePdf(i)
                 /\ \E w \in Workers :
                      /\ Finalizing(w) /\ CommitStep(w)
                      /\ workers[w].case_id = i
                      /\ workers'[w].renders = 1]_vars

\* The first case has been completed by a finalize_case that is answering 200
\* and the second case is still a draft.
C19_Witness ==
    /\ Len(store) = 2
    /\ store[1].status = "completed"
    /\ store[2].status = "draft"
    /\ \E w \in Workers :
          /\ Finalizing(w) /\ Responding(w)
          /\ workers[w].case_id = 1
          /\ workers[w].resp.code = 200
          /\ workers[w].renders = 1

\* C20: id, case_type, description, created_at and generated_text of every
\* stored case are the values it was inserted with.
C20_CreationFieldsImmutable ==
    /\ Len(created) = Len(store)
    /\ \A i \in 1..Len(store) :
          \A k \in {"id", "case_type", "description", "created_at", "generated_text"} :
              store[i][k] = created[i].row[k]

\* A case created from generated text was finalized twice (n1/i1/c1/e1, then
\* n2/i2/c2 without email) and is no longer the row that was inserted.
C20_Witness ==
    /\ Len(store) = 1
    /\ store[1] # created[1].row
    /\ store[1].status = "completed"
    /\ store[1].citizen_name = "n2"
    /\ store[1].email = "e1"
    /\ store[1].generated_text = "t1"

\* A row is inserted in a transition.
InsertStep == Len(store') > Len(store)

\* C21: every stored case has a generated_text (generated or the notice), and
\* every step that inserts a row is taken by a create_case whose generator call
\* had ended in an earlier step (it returned a text, or failed with a model
\* selected and returned the notice) and stores the text that call returned.
C21_GenerationBeforeInsert ==
    /\ [](\A i \in 1..Len(store) :
            /\ store[i].generated_text # None
            /\ store[i].generated_text \in GenTexts \cup {ErrorText})
    /\ [][InsertStep =>
            /\ ~InGenerator
            /\ loop.pc = "insert"
            /\ loop.lists = 1 /\ loop.generations = 1
            /\ loop.inserts = 0
            /\ loop.generated_text \in GenTexts \cup {ErrorText}
            /\ (loop.generated_text = ErrorText) <=> GeneratorFailed
            /\ Len(store') = Len(store) + 1
            /\ store'[Len(store')].generated_text = loop.generated_text
            /\ aiLog' = aiLog
            /\ loop'.generations = loop.generations /\ loop'.lists = loop.lists]_vars
    /\ [](loop.inserts > 0 =>
            /\ loop.pc \in {"refresh", "return"}
            /\ store[Len(store)].generated_text = loop.generated_text)

\* A create_case whose generation call raised has inserted the notice text as
\* the second case; the first case holds generated text.
C21_Witness ==
    /\ loop.pc = "return"
    /\ loop.inserts = 1
    /\ loop.generations = 1
    /\ loop.e = "generate_content failed"
    /\ Len(store) = 2
    /\ store[2].generated_text = ErrorText
    /\ store[1].generated_text = "t1"

\* The name of the first entry of a catalog, in catalog order, that supports
\* generateContent.
SupportsGeneration(m) == "generateContent" \in m.supported_generation_methods
FirstEligible(catalog) ==
    catalog[CHOOSE i \in 1..Len(catalog) :
                /\ SupportsGeneration(catalog[i])
                /\ \A j \in 1..(i - 1) : ~SupportsGeneration(catalog[j])].name

\* C22: a generator call starts with no model and no catalog held over from an
\* earlier call; the model it generates with comes from the one catalog query
\* of this call and is the first entry of that catalog, in catalog order, that
\* supports generateContent.
C22_FirstEligibleModelPerCall ==
    /\ loop.pc = "list_models" =>
          /\ loop.lists = 0
          /\ loop.model_name = Unbound
          /\ loop.catalog = << >>
    /\ loop.pc = "generate_content" =>
          /\ loop.lists = 1
          /\ \E i \in 1..Len(loop.catalog) : SupportsGeneration(loop.catalog[i])
          /\ loop.model_name = FirstEligible(loop.catalog)
    /\ loop.generations > 0 => (loop.lists = 1 /\ loop.model_name # Unbound)
    /\ loop.model_name # Unbound => loop.lists = 1

\* The second create_case of the behaviour has queried the catalog again and
\* selected m2, the second entry: the first supports embedContent only.
C22_Witness ==
    /\ loop.pc = "generate_content"
    /\ Len(store) = 1
    /\ loop.lists = 1
    /\ Len(loop.catalog) = 3
    /\ ~SupportsGeneration(loop.catalog[1])
    /\ loop.model_name = "m2"
    /\ loop.model_name = loop.catalog[2].name

\* C23: a create_case request makes at most one catalog query, at most one
\* generation call and at most one insert; once its generator has failed the
\* request is never at a genai call again (it is past generate_legal_text: at
\* its insert, its refresh or its return); and a create_case that answers 200
\* has inserted exactly one case, the one it returns.
C23_OneGenerationOneInsert ==
    /\ loop.lists <= 1
    /\ loop.generations <= 1
    /\ loop.inserts <= 1
    /\ GeneratorFailed => ~InGenerator /\ loop.pc \in {"insert", "refresh", "return"}
    /\ loop.pc = "insert" => (loop.inserts = 0 /\ loop.generations = 1)
    /\ (loop.pc = "return" /\ loop.resp.code = 200) =>
          /\ loop.inserts = 1
          /\ loop.resp.case.id = Len(store)
          /\ Len(created) = Len(store)
    /\ loop.pc = "refresh" => (loop.inserts = 1 /\ loop.case_id = Len(store))
    /\ (loop.pc = "return" /\ loop.resp.code # 200) => loop.inserts = 0

\* A create_case whose only generation call raised has logged the failure and
\* inserted one case, which it returns.
C23_Witness ==
    /\ loop.pc = "return"
    /\ loop.e = "generate_content failed"
    /\ loop.lists = 1 /\ loop.generations = 1 /\ loop.inserts = 1
    /\ loop.resp.code = 200
    /\ Len(store) = 1
    /\ Len(aiLog) = 1
    /\ aiLog[1].exception = "generate_content failed"

\* C24: the renderer is called only by a finalize_case that has loaded the case
\* it was asked for, at most once per request; no step of create_case and no
\* request of get_case calls it.
C24_RendererOncePerFinalize ==
    /\ [][\A w \in Workers :
            /\ workers'[w].renders > workers[w].renders =>
                 /\ Finalizing(w)
                 /\ workers[w].pc = "create_pdf"
                 /\ workers[w].renders = 0 /\ workers'[w].renders = 1
                 /\ workers[w].loaded # NoCase
                 /\ workers[w].loaded.id = workers[w].case_id
                 /\ loop' = loop
            /\ loop' # loop => workers'[w].renders = workers[w].renders]_vars
    /\ [](\A w \in Workers :
            /\ workers[w].renders <= 1
            /\ workers[w].pc = "create_pdf" =>
                  (Finalizing(w) /\ workers[w].loaded.id = workers[w].case_id
                                 /\ workers[w].case_id \in 1..Len(store))
            /\ workers[w].renders = 1 =>
                  (Finalizing(w) /\ workers[w].pc \in {"refresh", "respond"})
            /\ (Finalizing(w) /\ workers[w].loaded = NoCase) => workers[w].renders = 0
            /\ ~Finalizing(w) => workers[w].renders = 0)

\* While a create_case is about to answer, a finalize_case of the new case has
\* called the renderer once and a get_case of it has answered without.
C24_Witness ==
    /\ loop.pc = "return" /\ loop.inserts = 1
    /\ \E w, v \in Workers :
          /\ Finalizing(w) /\ Responding(w)
          /\ workers[w].renders = 1 /\ workers[w].resp.code = 200
          /\ workers[v].op = "get" /\ Responding(v)
          /\ workers[v].resp.code = 200 /\ workers[v].renders = 0

\* C25: a create_case that has called genai (catalog query or generation call)
\* and a finalize_case that has called the renderer always get to their
\* response, whether or not the callee ever answers.
C25_RequestsComplete ==
    /\ InGenerator ~> (loop.pc = "return")
    /\ \A w \in Workers :
          (workers[w].pc = "create_pdf") ~> (workers[w].pc = "respond")

\* C26: a step changes a stored row only as the commit of a finalize_case that
\* was asked for that row's id, and then changes no other row; an insert and
\* every other step leave the existing rows as they are.
C26_IsolatedPerCaseId ==
    [][/\ \A i \in 1..Len(store) :
            store'[i] # store[i] =>
                \E w \in Workers :
                    /\ Finalizing(w) /\ CommitStep(w)
                    /\ workers[w].case_id = i
                    /\ \A j \in 1..Len(store) : j # i => store'[j] = store[j]
       /\ \A w \in Workers :
            (workers'[w] # workers[w] /\ workers[w].pc \in {"fetch", "create_pdf"}) =>
                \A j \in 1..Len(store) :
                    j # workers[w].case_id => store'[j] = store[j]
       /\ loop' # loop => \A j \in 1..Len(store) : store'[j] = store[j]]_vars

\* While the create_case of the second case was in the generator, a
\* finalize_case completed the first case; the second was then inserted and is
\* the row that was built for it.
C26_Witness ==
    /\ loop.pc = "return" /\ loop.inserts = 1
    /\ Len(store) = 2
    /\ store[2] = created[2].row
    /\ store[1].status = "completed"
    /\ \E w \in Workers :
          /\ Finalizing(w) /\ Responding(w)
          /\ workers[w].case_id = 1 /\ workers[w].resp.code = 200

\* C27: a finalize_case that loads a case whose generated_text is the notice of
\* a failed generation is not turned away: it calls the renderer with that
\* notice as content, the renderer's return can be taken, and when it answers
\* 200 the case is completed with the notice still its generated_text.
C27_PlaceholderCaseFinalizes ==
    \A w \in Workers :
        (Finalizing(w) /\ workers[w].loaded.generated_text = ErrorText) =>
            /\ workers[w].content = ErrorText
            /\ \/ workers[w].pc = "create_pdf" /\ ENABLED FinalizeRenderReturns(w)
               \/ workers[w].pc \in {"refresh", "respond"} /\ workers[w].renders = 1
            /\ workers[w].pc = "refresh" =>
                  /\ store[workers[w].case_id].status = "completed"
                  /\ store[workers[w].case_id].generated_text = ErrorText
            /\ (Responding(w) /\ workers[w].resp.code = 200) =>
                  /\ workers[w].resp.case.status = "completed"
                  /\ workers[w].resp.case.generated_text = ErrorText
                  /\ store[workers[w].case_id].status = "completed"
                  /\ store[workers[w].case_id].generated_text = ErrorText

\* A case created while generate_content raised has been finalized: the
\* renderer was called with the notice and the case is completed.
C27_Witness ==
    \E w \in Workers :
        /\ Finalizing(w) /\ Responding(w)
        /\ workers[w].resp.code = 200
        /\ workers[w].content = ErrorText
        /\ workers[w].renders = 1
        /\ store[workers[w].case_id].status = "completed"
        /\ store[workers[w].case_id].generated_text = ErrorText
        /\ Len(aiLog) = 1 /\ aiLog[1].exception = "generate_content failed"

====
